---- MODULE Spec2Model ----
(***************************************************************************)
(* ReadPhantom.py: one run of readPhantom(), from the first prompt to the  *)
(* last output file, with the two writers create_vox_file and              *)
(* create_ct_den_mat_file.                                                 *)
(*                                                                         *)
(* Conventions.  NumPy arrays are functions over 0..n-1 (the source's      *)
(* 0-based indices); a text file is the sequence of its lines (1-based),   *)
(* each line a record [kind, text, vals] whose vals are the numbers the    *)
(* format string prints.  Resolutions and densities are drawn from small   *)
(* integers, which float32 and the %-formats of the writers hold exactly.  *)
(***************************************************************************)
EXTENDS Integers, Sequences, FiniteSets, TLC

(* ----------------------------- bounds ---------------------------------- *)
MaxDim == 2          \* largest voxel count per axis typed by the user
MaxTag == 2          \* largest organ tag in a phantom file / organlist row
MaxRows == 2         \* largest number of organlist rows

DimVals == -1..MaxDim
ResVals == -1..1
Tags == 0..MaxTag
RowTags == 1..MaxTag
Materials == {1, 2}
Densities == {-1, 2}
MaxVox == MaxDim * MaxDim * MaxDim

(* ------------------------ arrays and files ----------------------------- *)
Range(n) == 0..(n - 1)

Size(arr) == Cardinality(DOMAIN arr)

\* mutant of np_zeros: the arrays start at one (np.ones)
np_ones(n) == [i \in Range(n) |-> 1]

np_zeros(n) == [i \in Range(n) |-> 0]

Abs(d) == IF d < 0 THEN -d ELSE d

np_abs(arr) == [i \in DOMAIN arr |-> Abs(arr[i])]

ToInt16(v) == ((v + 32768) % 65536) - 32768

Line(kind, text, vals) == [kind |-> kind, text |-> text, vals |-> vals]

open_w(files, name, lines) ==
    [n \in (DOMAIN files) \cup {name} |-> IF n = name THEN lines ELSE files[n]]

open_a(files, name, lines) ==
    [n \in (DOMAIN files) \cup {name} |->
        IF n = name
        THEN (IF name \in DOMAIN files THEN files[name] ELSE << >>) \o lines
        ELSE files[n]]

(* ----------------------- create_vox_file ------------------------------- *)
VoxHeader(n_vox_x, n_vox_y, n_vox_z, vox_res_x, vox_res_y, vox_res_z) ==
    << Line("header", "[SECTION VOXELS HEADER v.2008-04-13]", << >>),
       Line("header", " %4d%4d%4d", <<n_vox_x, n_vox_y, n_vox_z>>),
       Line("header", " %7.5f %7.5f %7.5f", <<vox_res_x, vox_res_y, vox_res_z>>),
       Line("header", " 1", << >>),
       Line("header", " 2", << >>),
       Line("header", " 0", << >>),
       Line("header", "[END OF VXH SECTION]", << >>) >>

\* np.column_stack((arr_material, arr_density)) printed by np.savetxt
combined_array_mat_den(arr_material, arr_density) ==
    [r \in 1..Size(arr_material) |->
        Line("data", "%3d %7.4f", <<arr_material[r - 1], arr_density[r - 1]>>)]

VoxDataFile(vox_file) == "phantom.vox"

create_vox_file(files, vox_file, arr_material, arr_density, n_vox_x, n_vox_y, n_vox_z, vox_res_x, vox_res_y, vox_res_z) ==
    LET f == open_w(files, vox_file,
                    VoxHeader(n_vox_x, n_vox_y, n_vox_z,
                              vox_res_x, vox_res_y, vox_res_z))
    IN  open_a(f, VoxDataFile(vox_file),
               combined_array_mat_den(arr_material, arr_density))

(* -------------------- create_ct_den_mat_file --------------------------- *)
\* mutant of CtHeader: the nine lines left without the two "#" lines
CtHeader_NineLines(n_vox_x, n_vox_y, n_vox_z, len_x, len_y, len_z) ==
    << Line("header", "#  CT structure (GNUPLOT format).", << >>),
       Line("header", "#  CT enclosure limits:  XL = %e cm,  XU = %e cm", <<0, len_x>>),
       Line("header", "#                       YL = %e cm,  YU = %e cm", <<0, len_y>>),
       Line("header", "#                       ZL = %e cm,  ZU = %e cm", <<0, len_z>>),
       Line("header", "#  Numbers of voxels:    NVX = %d, NVY = %d, NVZ = %d",
            <<n_vox_x, n_vox_y, n_vox_z>>),
       Line("header", "#  columns 1 to 3: bin indices IX, IY and IZ", << >>),
       Line("header", "#  4th column: density (g/cm**3).", << >>),
       Line("header", "#  5th column: material. 6th column: organ ID", << >>),
       Line("header", "#  CT structure (GNUPLOT format).", << >>) >>

CtHeader(n_vox_x, n_vox_y, n_vox_z, len_x, len_y, len_z) ==
    << Line("header", "#  CT structure (GNUPLOT format).", << >>),
       Line("header", "#  CT enclosure limits:  XL = %e cm,  XU = %e cm", <<0, len_x>>),
       Line("header", "#                       YL = %e cm,  YU = %e cm", <<0, len_y>>),
       Line("header", "#                       ZL = %e cm,  ZU = %e cm", <<0, len_z>>),
       Line("header", "#  Numbers of voxels:    NVX = %d, NVY = %d, NVZ = %d",
            <<n_vox_x, n_vox_y, n_vox_z>>),
       Line("header", "#", << >>),
       Line("header", "#", << >>),
       Line("header", "#  columns 1 to 3: bin indices IX, IY and IZ", << >>),
       Line("header", "#  4th column: density (g/cm**3).", << >>),
       Line("header", "#  5th column: material. 6th column: organ ID", << >>),
       Line("header", "#  CT structure (GNUPLOT format).", << >>) >>

Separator == Line("separator", " ", << >>)

\* mutant of Counter: y taken as the fastest-varying index
Counter_YFastest(x, y, z, n_vox_x, n_vox_y) == y + n_vox_y * (x + n_vox_x * z)

\* counter = x + n_vox_x * (y + n_vox_y * z)
Counter(x, y, z, n_vox_x, n_vox_y) == x + n_vox_x * (y + n_vox_y * z)

DataLine(xyz, arr_density, arr_material, arr_organ, n_vox_x, n_vox_y) ==
    LET counter == Counter(xyz[1], xyz[2], xyz[3], n_vox_x, n_vox_y)
    IN  Line("data", " %3d %3d %3d %7.5e %4d %4d",
             <<xyz[1] + 1, xyz[2] + 1, xyz[3] + 1,
               arr_density[counter], arr_material[counter], arr_organ[counter]>>)

\* the three lambdas of readPhantom, from the loop counters to (x, y, z):
\* lambda z, y, x: (x, y, z); lambda y, x, z: (x, y, z); lambda x, z, y: (x, y, z)
LoopCounters == Nat \X Nat \X Nat
order_indices_xy == [c \in LoopCounters |-> LET z == c[1] y == c[2] x == c[3] IN <<x, y, z>>]
order_indices_xz == [c \in LoopCounters |-> LET y == c[1] x == c[2] z == c[3] IN <<x, y, z>>]
order_indices_yz == [c \in LoopCounters |-> LET x == c[1] z == c[2] y == c[3] IN <<x, y, z>>]

loop_order_xy(n_vox_x, n_vox_y, n_vox_z) == <<n_vox_z, n_vox_y, n_vox_x>>
loop_order_xz(n_vox_x, n_vox_y, n_vox_z) == <<n_vox_y, n_vox_x, n_vox_z>>
loop_order_yz(n_vox_x, n_vox_y, n_vox_z) == <<n_vox_x, n_vox_z, n_vox_y>>

\* mutant of CtLines: the inner loop runs from n-1 down to 0
CtLines_InnerDescending(arr_density, arr_material, arr_organ, n_vox_x, n_vox_y, order_indices, loop_order) ==
    LET n3 == IF loop_order[3] > 0 THEN loop_order[3] ELSE 0
        n2 == IF loop_order[2] > 0 THEN loop_order[2] ELSE 0
        n1 == IF loop_order[1] > 0 THEN loop_order[1] ELSE 0
        Inner(i_loop, j_loop) ==
            LET scan[k \in 0..n3] ==
                    IF k = 0 THEN << >>
                    ELSE Append(scan[k - 1],
                                DataLine(order_indices[<<i_loop, j_loop, n3 - k>>],
                                         arr_density, arr_material, arr_organ,
                                         n_vox_x, n_vox_y))
            IN  scan[n3]
        Middle(i_loop) ==
            LET block[j \in 0..n2] ==
                    IF j = 0 THEN << >>
                    ELSE Append(block[j - 1] \o Inner(i_loop, j - 1), Separator)
            IN  block[n2]
        all[i \in 0..n1] ==
            IF i = 0 THEN << >>
            ELSE Append(all[i - 1] \o Middle(i - 1), Separator)
    IN  all[n1]

\* the list "lines" built by the three nested loops
CtLines(arr_density, arr_material, arr_organ, n_vox_x, n_vox_y, order_indices, loop_order) ==
    LET Inner(i_loop, j_loop) ==
            LET scan[k \in 0..(IF loop_order[3] > 0 THEN loop_order[3] ELSE 0)] ==
                    IF k = 0 THEN << >>
                    ELSE Append(scan[k - 1],
                                DataLine(order_indices[<<i_loop, j_loop, k - 1>>],
                                         arr_density, arr_material, arr_organ,
                                         n_vox_x, n_vox_y))
            IN  scan[IF loop_order[3] > 0 THEN loop_order[3] ELSE 0]
        Middle(i_loop) ==
            LET block[j \in 0..(IF loop_order[2] > 0 THEN loop_order[2] ELSE 0)] ==
                    IF j = 0 THEN << >>
                    ELSE Append(block[j - 1] \o Inner(i_loop, j - 1), Separator)
            IN  block[IF loop_order[2] > 0 THEN loop_order[2] ELSE 0]
        all[i \in 0..(IF loop_order[1] > 0 THEN loop_order[1] ELSE 0)] ==
            IF i = 0 THEN << >>
            ELSE Append(all[i - 1] \o Middle(i - 1), Separator)
    IN  all[IF loop_order[1] > 0 THEN loop_order[1] ELSE 0]

create_ct_den_mat_file(files, file_name, arr_density, arr_material, arr_organ, n_vox_x, n_vox_y, n_vox_z, len_x, len_y, len_z, order_indices, loop_order) ==
    open_w(files, file_name,
           CtHeader(n_vox_x, n_vox_y, n_vox_z, len_x, len_y, len_z)
           \o CtLines(arr_density, arr_material, arr_organ, n_vox_x, n_vox_y,
                      order_indices, loop_order))

(* --------------------- the lookup (build) loop -------------------------- *)
\* mutant of AssignWhere: a row is also matched against the array being filled
AssignWhere_Cascading(arr, arr_organ, organ_id, value) ==
    [i \in DOMAIN arr |-> IF arr_organ[i] = organ_id \/ arr[i] = organ_id THEN value ELSE arr[i]]

\* organ_indices = np.where(arr_organ == row.Organ_ID); arr[organ_indices] = value
AssignWhere(arr, arr_organ, organ_id, value) ==
    [i \in DOMAIN arr |-> IF arr_organ[i] = organ_id THEN value ELSE arr[i]]

\* mutant of ApplyLookup: the rows are applied from the last to the first
ApplyLookup_Reversed(organlist_df, arr_organ, arr_material, arr_density) ==
    LET n == Len(organlist_df)
        loop[r \in 0..n] ==
            IF r = 0 THEN <<arr_material, arr_density>>
            ELSE LET row == organlist_df[n + 1 - r]
                 IN  << AssignWhere(loop[r - 1][1], arr_organ, row.Organ_ID,
                                    ToInt16(row.Material_ID)),
                        AssignWhere(loop[r - 1][2], arr_organ, row.Organ_ID,
                                    row.Density) >>
    IN  loop[n]

\* for row in organlist_df.itertuples(): ... ; result <<arr_material, arr_density>>
ApplyLookup(organlist_df, arr_organ, arr_material, arr_density) ==
    LET loop[r \in 0..Len(organlist_df)] ==
            IF r = 0 THEN <<arr_material, arr_density>>
            ELSE LET row == organlist_df[r]
                 IN  << AssignWhere(loop[r - 1][1], arr_organ, row.Organ_ID,
                                    ToInt16(row.Material_ID)),
                        AssignWhere(loop[r - 1][2], arr_organ, row.Organ_ID,
                                    row.Density) >>
    IN  loop[Len(organlist_df)]

\* if np.any(arr_density < 0): arr_density = np.abs(arr_density)
NegativeDensityCheck(arr_density) ==
    IF \E i \in DOMAIN arr_density : arr_density[i] < 0
    THEN np_abs(arr_density)
    ELSE arr_density

(* ------------------------------ inputs ---------------------------------- *)
\* a phantom file holding len organ tags
PhantomData(len, p) == [i \in Range(len) |-> (i + p) % (MaxTag + 1)]

Row(organ_id, material_id, density) ==
    [Organ_ID |-> organ_id, Material_ID |-> material_id, Density |-> density]

Rows == {Row(t, m, d) : t \in RowTags, m \in Materials, d \in Densities}

Tables == UNION {[1..n -> Rows] : n \in 0..MaxRows}

DefaultNames == <<"ct-den-matXY.dat", "ct-den-matXZ.dat", "ct-den-matYZ.dat">>

Stale == << Line("data", "left by an earlier run", << >>) >>

NoFiles == [n \in {} |-> << >>]

Disks == { NoFiles,
           [n \in {"phantom.vox"} |-> Stale],
           [n \in {"phantom.vox", "out.vox", "xy.dat"} |-> Stale] }

VoxAnswers == {"", "phantom.vox", "out.vox"}

CtAnswers == { <<"">>,
               <<"xy.dat", "xz.dat", "yz.dat">>,
               <<"xy.dat", "", "yz.dat">>,
               <<"xy.dat", "xz.dat">>,
               <<"xy.dat">>,
               <<"same.dat", "same.dat", "same.dat">>,
               <<"phantom.vox", "xz.dat", "out.vox">> }

DefaultInput ==
    [ phantom_exists    |-> TRUE,
      phantom_data      |-> PhantomData(MaxVox, 0),
      file_type         |-> 1,
      dims              |-> <<MaxDim, MaxDim, MaxDim>>,
      res               |-> <<1, 1, 1>>,
      material_num      |-> 2,
      choice_continue   |-> "y",
      organlist_exists  |-> TRUE,
      organlist_rows    |-> << Row(1, 1, 2), Row(2, 2, 2) >>,
      vox_file          |-> "",
      ct_den_mat_files  |-> <<"">>,
      disk              |-> NoFiles ]

\* the grid typed by the user against the number of values in the phantom file
GridInputs ==
    { [DefaultInput EXCEPT !.dims = <<x, y, z>>, !.phantom_data = PhantomData(l, 0)] :
        x \in DimVals, y \in DimVals, z \in DimVals, l \in 0..MaxVox }

ResolutionInputs ==
    { [DefaultInput EXCEPT !.res = <<x, y, z>>] :
        x \in ResVals, y \in ResVals, z \in ResVals }

AnswerInputs ==
    { [DefaultInput EXCEPT !.file_type = t, !.phantom_exists = pe,
                           !.phantom_data = PhantomData(l, 0),
                           !.material_num = m, !.choice_continue = c,
                           !.organlist_exists = oe] :
        t \in {0, 1}, pe \in BOOLEAN, l \in {0, MaxVox}, m \in 0..3,
        c \in {"y", "n"}, oe \in BOOLEAN }

TableInputs ==
    { [DefaultInput EXCEPT !.organlist_rows = rows, !.phantom_data = PhantomData(MaxVox, p)] :
        rows \in Tables, p \in Tags }

NameInputs ==
    { [DefaultInput EXCEPT !.vox_file = v, !.ct_den_mat_files = c, !.disk = d] :
        v \in VoxAnswers, c \in CtAnswers, d \in Disks }

Inputs == GridInputs \cup ResolutionInputs \cup AnswerInputs
          \cup TableInputs \cup NameInputs

(* ------------------------------- state ---------------------------------- *)
VARIABLES pc, err, inp, files,
          n_vox_x, n_vox_y, n_vox_z, vox_res_x, vox_res_y, vox_res_z,
          material_num, n_vox_tot, len_x, len_y, len_z,
          organlist_df, arr_material, arr_density, arr_organ,
          vox_file, ct_den_mat_files

cfgVars == <<n_vox_x, n_vox_y, n_vox_z, vox_res_x, vox_res_y, vox_res_z,
             material_num, n_vox_tot, len_x, len_y, len_z>>
arrVars == <<arr_material, arr_density, arr_organ>>
nameVars == <<vox_file, ct_den_mat_files>>
vars == <<pc, err, inp, files, cfgVars, organlist_df, arrVars, nameVars>>

NoError == [kind |-> "none", actual |-> 0, expected |-> 0]

Raise(kind) == [kind |-> kind, actual |-> 0, expected |-> 0]

Init ==
    /\ inp \in Inputs
    /\ pc = "check_phantom_file"
    /\ err = NoError
    /\ files = inp.disk
    /\ n_vox_x = 0 /\ n_vox_y = 0 /\ n_vox_z = 0
    /\ vox_res_x = 0 /\ vox_res_y = 0 /\ vox_res_z = 0
    /\ material_num = 0 /\ n_vox_tot = 0
    /\ len_x = 0 /\ len_y = 0 /\ len_z = 0
    /\ organlist_df = << >>
    /\ arr_material = np_zeros(0) /\ arr_density = np_zeros(0) /\ arr_organ = np_zeros(0)
    /\ vox_file = "" /\ ct_den_mat_files = << >>

(* ------------------------ readPhantom, step by step --------------------- *)
\* try: open(phantom_file, 'rb') / except FileNotFoundError: return
CheckPhantomFile ==
    /\ pc = "check_phantom_file"
    /\ pc' = IF inp.phantom_exists THEN "read_configuration" ELSE "returned"
    /\ UNCHANGED <<err, inp, files, cfgVars, organlist_df, arrVars, nameVars>>

\* the four configuration prompts, the derived totals and the material check
ReadConfiguration ==
    /\ pc = "read_configuration"
    /\ n_vox_x' = inp.dims[1] /\ n_vox_y' = inp.dims[2] /\ n_vox_z' = inp.dims[3]
    /\ vox_res_x' = inp.res[1] /\ vox_res_y' = inp.res[2] /\ vox_res_z' = inp.res[3]
    /\ material_num' = inp.material_num
    /\ n_vox_tot' = inp.dims[1] * inp.dims[2] * inp.dims[3]
    /\ len_x' = inp.res[1] * inp.dims[1]
    /\ len_y' = inp.res[2] * inp.dims[2]
    /\ len_z' = inp.res[3] * inp.dims[3]
    /\ IF inp.material_num <= 1
       THEN pc' = "failed" /\ err' = Raise("ValueError: number of materials")
       ELSE pc' = "confirm" /\ err' = err
    /\ UNCHANGED <<inp, files, organlist_df, arrVars, nameVars>>

\* "Do you wish to continue? (y/n)"
ConfirmContinue ==
    /\ pc = "confirm"
    /\ IF inp.choice_continue = "n"
       THEN pc' = "failed" /\ err' = Raise("SystemExit")
       ELSE pc' = "read_organlist" /\ err' = err
    /\ UNCHANGED <<inp, files, cfgVars, organlist_df, arrVars, nameVars>>

\* pd.read_fwf(organlist_file, ...) / except FileNotFoundError: return
ReadOrganlist ==
    /\ pc = "read_organlist"
    /\ IF inp.organlist_exists
       THEN pc' = "init_arrays" /\ organlist_df' = inp.organlist_rows
       ELSE pc' = "returned" /\ organlist_df' = organlist_df
    /\ UNCHANGED <<err, inp, files, cfgVars, arrVars, nameVars>>

\* np.zeros(n_vox_tot, ...) three times; a negative size raises ValueError
InitArrays ==
    /\ pc = "init_arrays"
    /\ IF n_vox_tot < 0
       THEN /\ pc' = "failed" /\ err' = Raise("ValueError: negative dimensions")
            /\ UNCHANGED arrVars
       ELSE /\ pc' = "read_phantom" /\ err' = err
            /\ arr_material' = np_zeros(n_vox_tot)
            /\ arr_density' = np_zeros(n_vox_tot)
            /\ arr_organ' = np_zeros(n_vox_tot)
    /\ UNCHANGED <<inp, files, cfgVars, organlist_df, nameVars>>

\* binary: struct.unpack('B', byte) for byte in data, where each byte of a
\* bytes object is an int, so unpack raises TypeError at the first byte;
\* ASCII: np.array(data.split(), dtype=np.int16)
ReadPhantomData ==
    /\ pc = "read_phantom"
    /\ IF inp.file_type = 0 /\ Size(inp.phantom_data) > 0
       THEN pc' = "failed" /\ err' = Raise("TypeError") /\ arr_organ' = arr_organ
       ELSE pc' = "check_count" /\ err' = err /\ arr_organ' = inp.phantom_data
    /\ UNCHANGED <<inp, files, cfgVars, organlist_df, arr_material, arr_density, nameVars>>

\* mutant of CountMismatch: only too few values are refused
CountMismatch_TooFewOnly(n_read, n_expected) == n_read < n_expected

\* the condition of the voxel count check: len(arr_organ) != n_vox_tot
CountMismatch(n_read, n_expected) == n_read # n_expected

\* if len(arr_organ) != n_vox_tot: raise ValueError(read count, expected total)
CheckVoxelCount ==
    /\ pc = "check_count"
    /\ IF CountMismatch(Size(arr_organ), n_vox_tot)
       THEN /\ pc' = "failed"
            /\ err' = [kind |-> "ValueError: number of voxels read",
                       actual |-> Size(arr_organ), expected |-> n_vox_tot]
       ELSE pc' = "check_density" /\ err' = err
    /\ UNCHANGED <<inp, files, cfgVars, organlist_df, arrVars, nameVars>>

\* "Check for negative densities"
CheckNegativeDensities ==
    /\ pc = "check_density"
    /\ arr_density' = NegativeDensityCheck(arr_density)
    /\ pc' = "read_names"
    /\ UNCHANGED <<err, inp, files, cfgVars, organlist_df, arr_material, arr_organ, nameVars>>

\* the .vox name and the ct-den-mat names, with their defaults
ReadOutputNames ==
    /\ pc = "read_names"
    /\ vox_file' = IF inp.vox_file = "" THEN "phantom.vox" ELSE inp.vox_file
    /\ ct_den_mat_files' =
          IF \E k \in 1..Len(inp.ct_den_mat_files) : inp.ct_den_mat_files[k] = ""
          THEN DefaultNames
          ELSE inp.ct_den_mat_files
    /\ pc' = "build"
    /\ UNCHANGED <<err, inp, files, cfgVars, organlist_df, arrVars>>

\* the loop over organlist_df.itertuples()
BuildFields ==
    /\ pc = "build"
    /\ LET built == ApplyLookup(organlist_df, arr_organ, arr_material, arr_density)
       IN  arr_material' = built[1] /\ arr_density' = built[2]
    /\ pc' = "report_max"
    /\ UNCHANGED <<err, inp, files, cfgVars, organlist_df, arr_organ, nameVars>>

\* np.max of the three arrays; np.max of an empty array raises ValueError
ReportMax ==
    /\ pc = "report_max"
    /\ IF Size(arr_material) = 0
       THEN pc' = "failed" /\ err' = Raise("ValueError: zero-size array")
       ELSE pc' = "create_vox" /\ err' = err
    /\ UNCHANGED <<inp, files, cfgVars, organlist_df, arrVars, nameVars>>

\* mutant of CreateVox: the writer takes the absolute densities in place
CreateVox_AbsInPlace ==
    /\ pc = "create_vox"
    /\ arr_density' = np_abs(arr_density)
    /\ files' = create_vox_file(files, vox_file, arr_material, np_abs(arr_density),
                                n_vox_x, n_vox_y, n_vox_z,
                                vox_res_x, vox_res_y, vox_res_z)
    /\ pc' = "create_xy"
    /\ UNCHANGED <<err, inp, cfgVars, organlist_df, arr_material, arr_organ, nameVars>>

CreateVox ==
    /\ pc = "create_vox"
    /\ files' = create_vox_file(files, vox_file, arr_material, arr_density,
                                n_vox_x, n_vox_y, n_vox_z,
                                vox_res_x, vox_res_y, vox_res_z)
    /\ pc' = "create_xy"
    /\ UNCHANGED <<err, inp, cfgVars, organlist_df, arrVars, nameVars>>

\* ct_den_mat_files[0] with order_indices_xy, loop_order_xy
CreateXY ==
    /\ pc = "create_xy"
    /\ IF Len(ct_den_mat_files) < 1
       THEN pc' = "failed" /\ err' = Raise("IndexError") /\ files' = files
       ELSE /\ pc' = "create_xz" /\ err' = err
            /\ files' = create_ct_den_mat_file(files, ct_den_mat_files[1],
                          arr_density, arr_material, arr_organ,
                          n_vox_x, n_vox_y, n_vox_z, len_x, len_y, len_z,
                          order_indices_xy, loop_order_xy(n_vox_x, n_vox_y, n_vox_z))
    /\ UNCHANGED <<inp, cfgVars, organlist_df, arrVars, nameVars>>

\* ct_den_mat_files[1] with order_indices_xz, loop_order_xz
CreateXZ ==
    /\ pc = "create_xz"
    /\ IF Len(ct_den_mat_files) < 2
       THEN pc' = "failed" /\ err' = Raise("IndexError") /\ files' = files
       ELSE /\ pc' = "create_yz" /\ err' = err
            /\ files' = create_ct_den_mat_file(files, ct_den_mat_files[2],
                          arr_density, arr_material, arr_organ,
                          n_vox_x, n_vox_y, n_vox_z, len_x, len_y, len_z,
                          order_indices_xz, loop_order_xz(n_vox_x, n_vox_y, n_vox_z))
    /\ UNCHANGED <<inp, cfgVars, organlist_df, arrVars, nameVars>>

\* ct_den_mat_files[2] with order_indices_yz, loop_order_yz
CreateYZ ==
    /\ pc = "create_yz"
    /\ IF Len(ct_den_mat_files) < 3
       THEN pc' = "failed" /\ err' = Raise("IndexError") /\ files' = files
       ELSE /\ pc' = "done" /\ err' = err
            /\ files' = create_ct_den_mat_file(files, ct_den_mat_files[3],
                          arr_density, arr_material, arr_organ,
                          n_vox_x, n_vox_y, n_vox_z, len_x, len_y, len_z,
                          order_indices_yz, loop_order_yz(n_vox_x, n_vox_y, n_vox_z))
    /\ UNCHANGED <<inp, cfgVars, organlist_df, arrVars, nameVars>>

Next ==
    \/ CheckPhantomFile
    \/ ReadConfiguration
    \/ ConfirmContinue
    \/ ReadOrganlist
    \/ InitArrays
    \/ ReadPhantomData
    \/ CheckVoxelCount
    \/ CheckNegativeDensities
    \/ ReadOutputNames
    \/ BuildFields
    \/ ReportMax
    \/ CreateVox
    \/ CreateXY
    \/ CreateXZ
    \/ CreateYZ

Spec == Init /\ [][Next]_vars

(* ======================= properties of the run ========================== *)
AfterBuild == {"report_max", "create_vox", "create_xy", "create_xz", "create_yz", "done"}

Projections == {"XY", "XZ", "YZ"}

\* the state right after the call that wrote projection p
JustWrote(p) ==
    \/ p = "XY" /\ pc = "create_xz"
    \/ p = "XZ" /\ pc = "create_yz"
    \/ p = "YZ" /\ pc = "done"

FileOf(p) ==
    files[ct_den_mat_files[CASE p = "XY" -> 1 [] p = "XZ" -> 2 [] p = "YZ" -> 3]]

IsData(l) == l.kind = "data"

DataOf(lines) == SelectSeq(lines, IsData)

\* (outer, middle, inner) axis extents documented for projection p
Extents(p) ==
    CASE p = "XY" -> <<n_vox_z, n_vox_y, n_vox_x>>
      [] p = "XZ" -> <<n_vox_y, n_vox_x, n_vox_z>>
      [] p = "YZ" -> <<n_vox_x, n_vox_z, n_vox_y>>

\* (outer, middle, inner) 0-based coordinates of the voxel a data line shows
LoopKey(p, l) ==
    LET x == l.vals[1] - 1
        y == l.vals[2] - 1
        z == l.vals[3] - 1
    IN  CASE p = "XY" -> <<z, y, x>>
          [] p = "XZ" -> <<y, x, z>>
          [] p = "YZ" -> <<x, z, y>>

LexLess(a, b) ==
    \/ a[1] < b[1]
    \/ a[1] = b[1] /\ a[2] < b[2]
    \/ a[1] = b[1] /\ a[2] = b[2] /\ a[3] < b[3]

PositiveGrid == n_vox_x > 0 /\ n_vox_y > 0 /\ n_vox_z > 0

\* position of the data line of voxel (x, y, z) among the data lines d (0 if none)
PosOf(d, x, y, z) ==
    IF \E m \in 1..Len(d) : d[m].vals[1] = x + 1 /\ d[m].vals[2] = y + 1 /\ d[m].vals[3] = z + 1
    THEN CHOOSE m \in 1..Len(d) :
            d[m].vals[1] = x + 1 /\ d[m].vals[2] = y + 1 /\ d[m].vals[3] = z + 1
    ELSE 0

\* C1 (as claimed): once the fields are built, and whenever an output file is
\* written, every element of the density field is >= 0.
C1_DensityNeverNegative ==
    pc \in AfterBuild => \A i \in DOMAIN arr_density : arr_density[i] >= 0

\* the lookup table as a mapping: the pair of the last row carrying the tag
HasTag(rows, tag) == \E r \in 1..Len(rows) : rows[r].Organ_ID = tag

TablePair(rows, tag) ==
    LET last == CHOOSE r \in 1..Len(rows) :
                    /\ rows[r].Organ_ID = tag
                    /\ \A q \in (r + 1)..Len(rows) : rows[q].Organ_ID # tag
    IN  <<rows[last].Material_ID, rows[last].Density>>

\* C2: after the build loop every voxel i in 0..N-1 whose organ tag is in the
\* lookup table holds the table's (material, density) pair for that tag, and
\* every voxel whose tag is absent from the table holds (0, 0).
C2_LookupRoundTrip ==
    pc \in AfterBuild =>
        /\ DOMAIN arr_material = Range(n_vox_tot)
        /\ DOMAIN arr_density = Range(n_vox_tot)
        /\ \A i \in Range(n_vox_tot) :
              <<arr_material[i], arr_density[i]>> =
                  IF HasTag(organlist_df, arr_organ[i])
                  THEN TablePair(organlist_df, arr_organ[i])
                  ELSE <<0, 0>>

\* C2 witness: a built field with a voxel whose tag is in the table (and got a
\* non-zero pair) and a voxel whose tag is absent from a non-empty table.
C2_Witness ==
    /\ pc = "create_vox"
    /\ Len(organlist_df) > 0
    /\ \E i \in DOMAIN arr_organ :
          HasTag(organlist_df, arr_organ[i]) /\ arr_material[i] # 0
    /\ \E i \in DOMAIN arr_organ : ~HasTag(organlist_df, arr_organ[i])

\* C3 (as claimed): right after create_vox_file returns, the file named by its
\* vox_file argument is the seven header lines followed by exactly N data rows,
\* row i holding (arr_material[i], arr_density[i]).
C3_VoxFileHoldsHeaderAndRows ==
    pc = "create_xy" =>
        /\ vox_file \in DOMAIN files
        /\ Len(files[vox_file]) = 7 + n_vox_tot
        /\ \A k \in 1..7 : files[vox_file][k].kind = "header"
        /\ \A i \in Range(n_vox_tot) :
              /\ files[vox_file][7 + i + 1].kind = "data"
              /\ files[vox_file][7 + i + 1].vals = <<arr_material[i], arr_density[i]>>

\* C4: the data lines of each projection file come in nested-loop order, the
\* (outer, middle, inner) coordinates ascending lexicographically: XY by
\* (z, y, x), XZ by (y, x, z), YZ by (x, z, y); each coordinate runs from 0.
C4_NestedLoopOrder ==
    \A p \in Projections :
        JustWrote(p) =>
            LET d == DataOf(FileOf(p))
            IN  /\ \A m \in 1..Len(d) :
                      \A c \in 1..3 : LoopKey(p, d[m])[c] \in Range(Extents(p)[c])
                /\ \A m \in 1..(Len(d) - 1) :
                      LexLess(LoopKey(p, d[m]), LoopKey(p, d[m + 1]))
                /\ Len(d) > 0 => LoopKey(p, d[1]) = <<0, 0, 0>>

\* C4 witness: on the 2x2x2 grid the XY file shows voxel (0,0,0) before
\* (1,0,0) before (0,1,0) before (0,0,1).
C4_Witness ==
    /\ JustWrote("XY")
    /\ <<n_vox_x, n_vox_y, n_vox_z>> = <<2, 2, 2>>
    /\ LET d == DataOf(FileOf("XY"))
       IN  /\ 0 < PosOf(d, 0, 0, 0)
           /\ PosOf(d, 0, 0, 0) < PosOf(d, 1, 0, 0)
           /\ PosOf(d, 1, 0, 0) < PosOf(d, 0, 1, 0)
           /\ PosOf(d, 0, 1, 0) < PosOf(d, 0, 0, 1)

\* C5: for a positive grid each projection file has exactly N data lines, one
\* for each voxel (x, y, z) and none twice; the line of (x, y, z) shows the
\* 1-based indices and the density, material and organ stored at linear index
\* x + nx*(y + ny*z), which lies in 0..N-1.
C5_EveryVoxelOnce ==
    \A p \in Projections :
        (JustWrote(p) /\ PositiveGrid) =>
            LET d == DataOf(FileOf(p))
            IN  /\ Len(d) = n_vox_tot
                /\ \A x \in Range(n_vox_x), y \in Range(n_vox_y), z \in Range(n_vox_z) :
                      LET idx == x + n_vox_x * (y + n_vox_y * z)
                          shown == {m \in 1..Len(d) :
                                       /\ d[m].vals[1] = x + 1
                                       /\ d[m].vals[2] = y + 1
                                       /\ d[m].vals[3] = z + 1}
                      IN  /\ idx \in Range(n_vox_tot)
                          /\ Cardinality(shown) = 1
                          /\ \A m \in shown :
                                /\ d[m].vals[4] = arr_density[idx]
                                /\ d[m].vals[5] = arr_material[idx]
                                /\ d[m].vals[6] = arr_organ[idx]

\* C5 witness: a YZ file just written for a grid with distinct extents > 1
\* on two axes, whose organ field has different tags at the two ends.
C5_Witness ==
    /\ JustWrote("YZ")
    /\ PositiveGrid
    /\ n_vox_x # n_vox_y
    /\ n_vox_tot > 2
    /\ arr_organ[0] # arr_organ[1]
    /\ Len(DataOf(FileOf("YZ"))) = n_vox_tot

\* the lines of a projection file after its header lines
SectionOf(lines) ==
    LET IsBody(l) == l.kind # "header" IN SelectSeq(lines, IsBody)

\* C6 (as claimed): in every projection file one separator line follows the
\* data lines of each inner scan and one more follows each outer iteration, so
\* each outer block ends with two consecutive separators and the data section
\* has N + outer*middle + outer lines.
C6_SeparatorLayout ==
    \A p \in Projections :
        JustWrote(p) =>
            LET b == SectionOf(FileOf(p))
                outer == Extents(p)[1]
                middle == Extents(p)[2]
                EndsScan(m) == /\ b[m].kind = "data"
                               /\ (m = Len(b) \/ b[m + 1].kind # "data")
                EndsBlock(m) == /\ b[m].kind = "data"
                                /\ \A q \in (m + 1)..Len(b) :
                                      b[q].kind = "data" =>
                                          LoopKey(p, b[q])[1] # LoopKey(p, b[m])[1]
            IN  /\ Len(b) = n_vox_tot + outer * middle + outer
                /\ \A m \in 1..(Len(b) - 1) :
                      (b[m].kind = "data" /\ b[m + 1].kind = "data") =>
                          /\ LoopKey(p, b[m])[1] = LoopKey(p, b[m + 1])[1]
                          /\ LoopKey(p, b[m])[2] = LoopKey(p, b[m + 1])[2]
                /\ \A m \in 1..Len(b) :
                      EndsScan(m) =>
                          /\ m + 2 <= Len(b)
                          /\ b[m + 1].kind = "separator"
                          /\ IF EndsBlock(m)
                             THEN /\ b[m + 2].kind = "separator"
                                  /\ (m + 3 > Len(b) \/ b[m + 3].kind = "data")
                             ELSE b[m + 2].kind = "data"
                /\ Len(b) >= 2
                /\ b[Len(b)].kind = "separator"
                /\ b[Len(b) - 1].kind = "separator"

\* C7 (as claimed): every projection file begins with a header of exactly nine
\* lines, and its first data line is the tenth line of the file.
C7_NineLineHeader ==
    \A p \in Projections :
        JustWrote(p) =>
            /\ Len(FileOf(p)) >= 9
            /\ \A k \in 1..9 : FileOf(p)[k].kind = "header"
            /\ \A k \in 10..Len(FileOf(p)) : FileOf(p)[k].kind # "header"
            /\ Len(DataOf(FileOf(p))) > 0 => FileOf(p)[10].kind = "data"

\* C7 (amended): every projection file begins with a header of exactly eleven
\* lines, and its first data line, when it has one, is the twelfth line.
C7_ElevenLineHeader ==
    \A p \in Projections :
        JustWrote(p) =>
            /\ Len(FileOf(p)) >= 11
            /\ \A k \in 1..11 : FileOf(p)[k].kind = "header"
            /\ \A k \in 12..Len(FileOf(p)) : FileOf(p)[k].kind # "header"
            /\ Len(DataOf(FileOf(p))) > 0 => FileOf(p)[12].kind = "data"

\* C7 witness: a projection file just written for a positive grid, whose
\* eleventh line is still header and whose twelfth line is the first data line.
C7_Witness ==
    /\ JustWrote("XZ")
    /\ PositiveGrid
    /\ FileOf("XZ")[11].kind = "header"
    /\ FileOf("XZ")[12] = DataOf(FileOf("XZ"))[1]

ReadDone ==
    \/ pc \in {"check_count", "check_density", "read_names", "build"}
    \/ pc \in AfterBuild
    \/ pc = "failed" /\ err.kind \in {"ValueError: number of voxels read",
                                      "ValueError: zero-size array", "IndexError"}

\* C8: when the number of organ values read differs from nx*ny*nz the run
\* goes no further than the count check, where it fails with an error that
\* carries the actual and the expected count; no output file has been created
\* or modified.
C8_CountMismatchFatal ==
    (ReadDone /\ Size(arr_organ) # n_vox_x * n_vox_y * n_vox_z) =>
        /\ files = inp.disk
        /\ pc \in {"check_count", "failed"}
        /\ pc = "failed" =>
              /\ err.kind = "ValueError: number of voxels read"
              /\ err.actual = Size(arr_organ)
              /\ err.expected = n_vox_x * n_vox_y * n_vox_z

\* C8 witness: 7 organ values read for a 2x2x2 grid, the run failed.
C8_Witness ==
    /\ pc = "failed"
    /\ err = [kind |-> "ValueError: number of voxels read", actual |-> 7, expected |-> 8]
    /\ Size(arr_organ) = 7
    /\ <<n_vox_x, n_vox_y, n_vox_z>> = <<2, 2, 2>>

InvalidConfiguration ==
    \/ \E a \in 1..3 : inp.dims[a] <= 0
    \/ \E a \in 1..3 : inp.res[a] <= 0
    \/ inp.material_num < 2

\* C9 (as claimed): with a grid dimension <= 0, a resolution <= 0 or fewer
\* than 2 materials, the run aborts with an error and writes no output file.
C9_InvalidConfigurationFatal ==
    InvalidConfiguration =>
        /\ files = inp.disk
        /\ pc \notin {"create_xy", "create_xz", "create_yz", "done"}

\* C10: when several lookup rows carry the same organ tag, every voxel with
\* that tag ends with the (material, density) pair of the last such row.
C10_LastWriteWins ==
    pc \in AfterBuild =>
        \A r1 \in 1..Len(organlist_df), r2 \in 1..Len(organlist_df) :
            ( /\ r1 < r2
              /\ organlist_df[r1].Organ_ID = organlist_df[r2].Organ_ID
              /\ \A q \in (r2 + 1)..Len(organlist_df) :
                    organlist_df[q].Organ_ID # organlist_df[r2].Organ_ID ) =>
                \A i \in DOMAIN arr_organ :
                    arr_organ[i] = organlist_df[r2].Organ_ID =>
                        /\ arr_material[i] = organlist_df[r2].Material_ID
                        /\ arr_density[i] = organlist_df[r2].Density

\* C10 witness: two rows with one tag and different pairs, and a voxel with
\* that tag holding the later row's pair.
C10_Witness ==
    /\ pc = "create_vox"
    /\ \E r1 \in 1..Len(organlist_df), r2 \in 1..Len(organlist_df) :
          /\ r1 < r2
          /\ organlist_df[r1].Organ_ID = organlist_df[r2].Organ_ID
          /\ organlist_df[r1].Material_ID # organlist_df[r2].Material_ID
          /\ organlist_df[r1].Density # organlist_df[r2].Density
          /\ \E i \in DOMAIN arr_organ :
                /\ arr_organ[i] = organlist_df[r2].Organ_ID
                /\ arr_material[i] = organlist_df[r2].Material_ID
                /\ arr_density[i] = organlist_df[r2].Density

\* C11: once the build phase is complete no step changes the organ, material
\* or density array: create_vox_file and the three create_ct_den_mat_file
\* calls leave them as the build left them.
C11_ArraysReadOnlyAfterBuild ==
    [][(pc \in AfterBuild) =>
          (arr_organ' = arr_organ /\ arr_material' = arr_material /\ arr_density' = arr_density)]_vars

\* C11 witness: all four writers have run on a field with a negative and a
\* positive density, and the arrays are still what the build made of the inputs.
C11_Witness ==
    /\ pc = "done"
    /\ arr_organ = inp.phantom_data
    /\ <<arr_material, arr_density>> =
          ApplyLookup(organlist_df, arr_organ, np_zeros(n_vox_tot), np_zeros(n_vox_tot))
    /\ \E i \in DOMAIN arr_density : arr_density[i] < 0
    /\ \E i \in DOMAIN arr_density : arr_density[i] > 0

\* product of the grid answered by the user
InputVoxels == inp.dims[1] * inp.dims[2] * inp.dims[3]

\* the run has tried to read the phantom data, in binary mode, from a file of
\* exactly nx*ny*nz bytes
BinaryReadOfFullFile ==
    /\ inp.file_type = 0
    /\ Size(inp.phantom_data) = InputVoxels
    /\ \/ ReadDone
       \/ pc = "failed" /\ err.kind = "TypeError"

\* C12 (as claimed): in binary mode a phantom file of exactly nx*ny*nz bytes
\* is read into an organ field of nx*ny*nz tags, tag i the unsigned value of
\* byte i; the count check passes and the run goes on to the build phase.
C12_BinaryFileIsRead ==
    BinaryReadOfFullFile =>
        /\ arr_organ = inp.phantom_data
        /\ \A i \in DOMAIN arr_organ : arr_organ[i] \in 0..255
        /\ ~(pc = "failed" /\ err.kind \in {"TypeError", "ValueError: number of voxels read"})

RunEnded == pc \in {"done", "failed", "returned"}

\* the four output files as a finished run leaves them
AllFourWritten ==
    /\ pc = "done"
    /\ vox_file \in DOMAIN files
    /\ Len(files[vox_file]) = 7 + n_vox_tot
    /\ \A k \in 1..3 :
          /\ ct_den_mat_files[k] \in DOMAIN files
          /\ Len(files[ct_den_mat_files[k]]) >= 11

\* C13 (as claimed): a run ends, normally or by an error, either with none of
\* the four output files written or with all four written completely.
C13_AllOrNothing ==
    RunEnded => (files = inp.disk \/ AllFourWritten)

DistinctTags(rows) ==
    \A r1 \in 1..Len(rows), r2 \in 1..Len(rows) :
        r1 # r2 => rows[r1].Organ_ID # rows[r2].Organ_ID

Permuted(rows, perm) == [k \in 1..Len(rows) |-> rows[perm[k]]]

\* C14: rows are matched against the organ field only, so a voxel given
\* material m by one row is not matched again by a row whose organ tag is m;
\* and for rows with pairwise distinct organ tags the material and density
\* fields are the same for every permutation of the rows.
C14_NoCascadeOrderFree ==
    (pc \in AfterBuild /\ DistinctTags(organlist_df)) =>
        /\ \A i \in DOMAIN arr_organ :
              \A r \in 1..Len(organlist_df) :
                  organlist_df[r].Organ_ID = arr_organ[i] =>
                      /\ arr_material[i] = organlist_df[r].Material_ID
                      /\ arr_density[i] = organlist_df[r].Density
        /\ \A perm \in Permutations(1..Len(organlist_df)) :
              <<arr_material, arr_density>> =
                  ApplyLookup(Permuted(organlist_df, perm), arr_organ,
                              np_zeros(n_vox_tot), np_zeros(n_vox_tot))

\* C14 witness: two rows with distinct tags where the later row's tag is the
\* material the earlier row assigns, and a voxel that kept the earlier row's
\* material although the later row assigns another one.
C14_Witness ==
    /\ pc = "create_vox"
    /\ DistinctTags(organlist_df)
    /\ \E r1 \in 1..Len(organlist_df), r2 \in 1..Len(organlist_df) :
          /\ r1 < r2
          /\ organlist_df[r2].Organ_ID = organlist_df[r1].Material_ID
          /\ organlist_df[r2].Material_ID # organlist_df[r1].Material_ID
          /\ \E i \in DOMAIN arr_organ :
                /\ arr_organ[i] = organlist_df[r1].Organ_ID
                /\ arr_material[i] = organlist_df[r1].Material_ID

====
